---- MODULE Spec2Model ----
(***************************************************************************)
(* A model of the filesystem-backed, content-addressed object store of     *)
(* igumus/go-objectstore-fs: DigestObject, ToObjectLink, HasObject,        *)
(* ReadObject, CreateObject (src/fsstore.go, src/helper.go) called by      *)
(* concurrent callers on one shared filesystem, ListObject with its        *)
(* producer goroutine (src/unnamed/part_001), and the construction of the  *)
(* store from its options (src/unnamed/part_002).                          *)
(***************************************************************************)
EXTENDS Naturals, Integers, Sequences, FiniteSets, TLC

\* Longest object, in bytes, that a caller stores.
MaxLen == 1

\* Hex digits of a rendered digest (sha256 renders 64; the model scales it down).
HexLen == 2

\* Longest directory or bucket name given as an option at construction.
MaxOpt == 2

\* Longest string handed to HasObject or ToObjectLink as a CID.
MaxCid == 2

\* Largest shard-prefix length a store is configured with.
MaxSep == 2

\* The concurrent callers of the engine.
Procs == {"p1", "p2"}

\* The objects callers store: <<>>, <<1>>, <<1,2>>, ...  Every proper prefix of
\* an object is itself an object with another digest, so a partly written file
\* holds the bytes of a different CID.
Data == {[i \in 1..n |-> i] : n \in 0..MaxLen}

--------------------------------------------------------------------------
(* DigestObject: sha256.Sum256 rendered with "%x".  The model keeps the    *)
(* shape (a hash folded over the bytes, rendered as HexLen lowercase hex   *)
(* digits) and is collision free on Data, as sha256 is assumed to be.      *)

HexChars == <<"0", "1", "2", "3", "4", "5", "6", "7",
              "8", "9", "a", "b", "c", "d", "e", "f">>

RECURSIVE Pow16(_)
Pow16(n) == IF n = 0 THEN 1 ELSE 16 * Pow16(n - 1)

RECURSIVE Sum256(_)
Sum256(data) ==
    IF data = <<>> THEN 1
    ELSE (Sum256(SubSeq(data, 1, Len(data) - 1)) * 31 + data[Len(data)] + 1)
             % Pow16(HexLen)

\* fmt.Sprintf("%x", sum): the digits of sum, most significant first.
HexFormat(sum) ==
    [i \in 1..HexLen |-> HexChars[((sum \div Pow16(HexLen - i)) % 16) + 1]]

DigestObject(data) == HexFormat(Sum256(data))

CIDs == {DigestObject(d) : d \in Data}

\* The object a CID names (CHOOSE is determined: the digest is collision free on Data).
DataOf(cid) == CHOOSE d \in Data : DigestObject(d) = cid

--------------------------------------------------------------------------
(* The store configuration and the object link.                            *)

\* A path is a list of segments, a segment a list of characters.
ConfigDir == <<"d", "a", "t", "a">>
ConfigBucket == <<"s", "t", "o", "r", "e">>
seperatorLength == 1

\* _objFormat: dir/bucket/parentFolder/childFolder/name, as a list of segments.
ObjFormat(dir, bucket, parentFolder, childFolder, name) ==
    <<dir, bucket, parentFolder, childFolder, name>>

\* defaultFSObjectstoreConfig: the configuration before the options.
defaultFSObjectstoreConfig ==
    [dir |-> ConfigDir, bucket |-> ConfigBucket,
     seperatorLength |-> seperatorLength]

\* A resolver that takes the shard prefix for the child folder as well.
ToObjectLinkSamePrefix(config, cid, name) ==
    LET sepLen == config.seperatorLength
    IN  IF sepLen > Len(cid)
          THEN [panic |-> TRUE, link |-> <<>>]
          ELSE [panic |-> FALSE,
                link |-> ObjFormat(config.dir, config.bucket,
                                   SubSeq(cid, 1, sepLen),
                                   SubSeq(cid, 1, sepLen), name)]

\* ToObjectLink on a store with configuration config.  cid[:sepLen] and
\* cid[sepLen:] panic (slice bounds out of range) when cid is shorter than
\* sepLen.
ToObjectLinkOn(config, cid, name) ==
    LET sepLen == config.seperatorLength
    IN  IF sepLen > Len(cid)
          THEN [panic |-> TRUE, link |-> <<>>]
          ELSE LET parentFolder == SubSeq(cid, 1, sepLen)
                   childFolder == SubSeq(cid, sepLen + 1, Len(cid))
               IN  [panic |-> FALSE,
                    link |-> ObjFormat(config.dir, config.bucket,
                                       parentFolder, childFolder, name)]

\* ToObjectLink on the store of the default configuration, for a digest.
ToObjectLink(cid, name) ==
    ToObjectLinkOn(defaultFSObjectstoreConfig, cid, name).link

\* The link as the string fmt.Sprintf renders: the segments joined by "/".
RECURSIVE PathString(_)
PathString(objLink) ==
    IF objLink = <<>> THEN <<>>
    ELSE IF Len(objLink) = 1 THEN objLink[1]
    ELSE objLink[1] \o <<"/">> \o PathString(Tail(objLink))

\* filepath.Dir: the link without its last segment.
FilepathDir(objLink) == SubSeq(objLink, 1, Len(objLink) - 1)

\* The link of an object: HasObject, ReadObject and CreateObject name the
\* file after the CID.
LinkOf(cid) == ToObjectLink(cid, cid)

Links == {LinkOf(c) : c \in CIDs}

--------------------------------------------------------------------------
(* Errors and contexts.                                                    *)

Nil == "nil"
ErrOperationCancelled == "ErrOperationCancelled"
ErrOperationDeadlineExceeded == "ErrOperationDeadlineExceeded"
ErrObjectNotExists == "ErrObjectNotExists"
ErrObjectReadingFailed == "ErrObjectReadingFailed"
ErrObjectWritingFailed == "ErrObjectWritingFailed"
ErrDataDirNotSpecified == "ErrDataDirNotSpecified"
ErrBucketNotSpecified == "ErrBucketNotSpecified"

\* ctx.Err(): nil while the context is live, then one of the two, for good.
CtxErrs == {Nil, "Canceled", "DeadlineExceeded"}

checkContextError(ctxErr) ==
    CASE ctxErr = "Canceled" -> ErrOperationCancelled
      [] ctxErr = "DeadlineExceeded" -> ErrOperationDeadlineExceeded
      [] OTHER -> Nil

--------------------------------------------------------------------------
(* Construction: the options, validate, NewFileSystemObjectStore.          *)

\* The strings over an alphabet, up to a length.
Strings(alphabet, n) == UNION {[1..k -> alphabet] : k \in 0..n}

\* An option is given or not; the options of one construction.
Unset == [set |-> FALSE, val |-> <<>>]
Given(v) == [set |-> TRUE, val |-> v]
NoOpts == [dir |-> Unset, bucket |-> Unset, sep |-> [set |-> FALSE, val |-> 0]]
Opts ==
    [dir : {Unset} \cup {Given(v) : v \in Strings({" ", "a"}, MaxOpt)},
     bucket : {Unset} \cup {Given(v) : v \in Strings({" ", "a"}, MaxOpt)},
     sep : {[set |-> FALSE, val |-> 0]}
             \cup {[set |-> TRUE, val |-> k] : k \in 0..MaxSep}]

RECURSIVE TrimLeft(_)
TrimLeft(str) ==
    IF str # <<>> /\ Head(str) = " " THEN TrimLeft(Tail(str)) ELSE str

RECURSIVE TrimRight(_)
TrimRight(str) ==
    IF str # <<>> /\ str[Len(str)] = " "
      THEN TrimRight(SubSeq(str, 1, Len(str) - 1))
      ELSE str

\* An option that stores the string as given.
TrimSpaceNone(str) == str

\* strings.TrimSpace
TrimSpace(str) == TrimRight(TrimLeft(str))

WithBucket(cd, fosc) == [fosc EXCEPT !.bucket = TrimSpace(cd)]

WithDataDir(d, fosc) == [fosc EXCEPT !.dir = TrimSpace(d)]

\* The option that sets the shard-prefix length.
WithSeperatorLength(k, fosc) == [fosc EXCEPT !.seperatorLength = k]

validate(f) ==
    IF Len(f.dir) = 0 THEN ErrDataDirNotSpecified
    ELSE IF Len(f.bucket) = 0 THEN ErrBucketNotSpecified
    ELSE Nil

\* NewFileSystemObjectStore(opts...): the default configuration, the options
\* applied to it, validate; the store or the error.
NewFileSystemObjectStore(opts) ==
    LET cfg0 == defaultFSObjectstoreConfig
        cfg1 == IF opts.dir.set THEN WithDataDir(opts.dir.val, cfg0) ELSE cfg0
        cfg2 == IF opts.bucket.set THEN WithBucket(opts.bucket.val, cfg1) ELSE cfg1
        cfg == IF opts.sep.set THEN WithSeperatorLength(opts.sep.val, cfg2) ELSE cfg2
        err == validate(cfg)
    IN  IF err # Nil
          THEN [pc |-> "failed", opts |-> opts, config |-> cfg0, err |-> err]
          ELSE [pc |-> "built", opts |-> opts, config |-> cfg, err |-> Nil]

--------------------------------------------------------------------------
(* The filesystem: the regular file at each object link, and the object    *)
(* directories that exist.  A system call either is served or fails with   *)
(* an error of the environment (permissions, I/O).                         *)

NoFile == [present |-> FALSE, content |-> <<>>]
File(bytes) == [present |-> TRUE, content |-> bytes]

\* os.Stat's error for a link: ENOENT when no file is there, none when one is,
\* or the environment's error.
StatErrs(fsys, objLink) ==
    {IF fsys[objLink].present THEN Nil ELSE "ENOENT", "EACCES"}

\* errors.Is(err, os.ErrNotExist)
IsNotExist(statErr) == statErr = "ENOENT"

\* exists: !errors.Is(err, os.ErrNotExist)
exists(statErr) == ~IsNotExist(statErr)

\* HasObject, given what os.Stat answered for ToObjectLink(cid, cid).
HasObject(statErr) == exists(statErr)

\* A write that appends (a file opened with O_APPEND) instead.
WriteAppend(old, bytes) == old \o bytes

\* The bytes of a file after `bytes` are written at offset 0 of `old`.
WriteAt0(old, bytes) ==
    bytes \o SubSeq(old, Len(bytes) + 1, Len(old))

\* What one File.Write of `data` may get onto the disk: all of it, or a
\* proper prefix when the write fails partway.
WriteCounts(data) == 0..Len(data)

VARIABLES
    fs,      \* fs[objLink]: the file at the link
    dirs,    \* the object directories (filepath.Dir of a link) that exist
    proc,    \* proc[p]: the call caller p is in, or its last call's result
    hist,    \* hist[cid]: how far CreateObject has come for the CID, ever
    lo,      \* the ListObject call and its producer goroutine
    chData,  \* the identifier channel (unbuffered)
    chErr,   \* the error channel (buffer of 1)
    recvd,   \* what the consumer has received: identifiers and errors
    cons,    \* the construction: its options, and the store or the error
    call,    \* the last ToObjectLink or HasObject call on a given string
    prev     \* the call before it

storeVars == <<fs, dirs, proc, hist>>
listVars == <<lo, chData, chErr, recvd>>
consVars == <<cons, call, prev>>
vars == <<fs, dirs, proc, hist, lo, chData, chErr, recvd, cons, call, prev>>

\* A caller between calls, with what its last call returned: op and cid name
\* the call, err and val (ReadObject's bytes) and has (HasObject's answer) are
\* its results, stat is what os.Stat answered a HasObject call, wrote tells
\* whether the call created the file.  During a call, data
\* and ctx are its arguments, mkerr is what os.MkdirAll returned (the call
\* drops it); pre tells whether ctx was done when the call was
\* made, and again whether the caller's previous call was a CreateObject of
\* the same data that returned without error.
Idle == [pc |-> "idle", op |-> "none", cid |-> <<>>, data |-> <<>>,
         ctx |-> Nil, pre |-> FALSE, again |-> FALSE,
         err |-> Nil, val |-> <<>>, has |-> FALSE, stat |-> Nil,
         wrote |-> FALSE, mkerr |-> Nil]

\* No ListObject call yet.  pc is where the producer is, pos the path of the
\* walk it is at, err what the walk returned; pre tells whether ctx was done
\* when ListObject was called, cause why the walk was aborted ("ctx": a check
\* saw the context done, "walk": the walk hit an error).
NoList == [pc |-> "idle", ctx |-> Nil, pre |-> FALSE, pos |-> 0, err |-> Nil,
           cause |-> Nil]

\* No call yet.  panic tells whether the call panicked, link is what
\* ToObjectLink returned, has what HasObject returned.
NoCall == [op |-> "none", cid |-> <<>>, name |-> <<>>, panic |-> FALSE,
           link |-> <<>>, has |-> FALSE]

\* The store HasObject, ReadObject, CreateObject and ListObject are called
\* on: constructed with no option.
ConsInit ==
    /\ cons = NewFileSystemObjectStore(NoOpts)
    /\ call = NoCall
    /\ prev = NoCall

ListInit ==
    /\ lo = NoList
    /\ chData = [closed |-> FALSE]
    /\ chErr = [buf |-> <<>>, closed |-> FALSE]
    /\ recvd = [ids |-> <<>>, errs |-> <<>>]

Init ==
    /\ fs = [l \in Links |-> NoFile]
    /\ dirs = {}
    /\ proc = [p \in Procs |-> Idle]
    /\ hist = [c \in CIDs |-> "none"]
    /\ ListInit
    /\ ConsInit

\* A call is made: the caller's record is that of the call.
Call(p, fields) ==
    proc' = [proc EXCEPT ![p] = fields @@ Idle]

\* A call goes on to its next statement.
Step(p, fields) ==
    proc' = [proc EXCEPT ![p] = fields @@ @]

\* A call returns: the caller is idle again and holds the results; the
\* arguments are gone with the call.
Return(p, fields) ==
    proc' = [proc EXCEPT ![p] =
                fields @@ [pc |-> "idle", op |-> @.op, cid |-> @.cid,
                           wrote |-> @.wrote] @@ Idle]

\* The context of caller p's call is cancelled, or its deadline passes,
\* while the call has not yet looked at it.
CtxDone(p) ==
    /\ proc[p].pc \in {"r_has", "r_ctx", "c_ctx"}
    /\ proc[p].ctx = Nil
    /\ \E e \in CtxErrs \ {Nil} : Step(p, [ctx |-> e])
    /\ UNCHANGED <<fs, dirs, hist>>

--------------------------------------------------------------------------
(* HasObject(ctx, cid)                                                     *)

HasObjectCall(p) ==
    /\ proc[p].pc = "idle"
    /\ \E cid \in CIDs : Call(p, [pc |-> "h_stat", op |-> "has", cid |-> cid])
    /\ UNCHANGED <<fs, dirs, hist>>

\* Lines 63-69.
HasObjectStat(p) ==
    /\ proc[p].pc = "h_stat"
    /\ \E statErr \in StatErrs(fs, ToObjectLink(proc[p].cid, proc[p].cid)) :
         Return(p, [has |-> HasObject(statErr), stat |-> statErr])
    /\ UNCHANGED <<fs, dirs, hist>>

--------------------------------------------------------------------------
(* CreateObject(ctx, data)                                                 *)

\* How far CreateObject has come for a CID: "none", then "called" once a call
\* was made, then "created" once a call returned without error.
Called(h) == IF h = "none" THEN "called" ELSE h

\* Line 111: the digest.
CreateCall(p) ==
    /\ proc[p].pc = "idle"
    /\ \E data \in Data, ctx0 \in CtxErrs :
         LET cid == DigestObject(data)
         IN  /\ Call(p, [pc |-> "c_ctx", op |-> "create", cid |-> cid,
                         data |-> data, ctx |-> ctx0, pre |-> ctx0 # Nil,
                         again |-> /\ proc[p].op = "create"
                                   /\ proc[p].cid = cid
                                   /\ proc[p].err = Nil])
             /\ hist' = [hist EXCEPT ![cid] = Called(@)]
    /\ UNCHANGED <<fs, dirs>>

\* Lines 112-114: the context check.
CreateCheckCtx(p) ==
    /\ proc[p].pc = "c_ctx"
    /\ LET ctxErr == checkContextError(proc[p].ctx)
       IN  IF ctxErr # Nil
             THEN Return(p, [err |-> ctxErr])
             ELSE Step(p, [pc |-> "c_has", ctx |-> Nil, pre |-> FALSE])
    /\ UNCHANGED <<fs, dirs, hist>>

\* Line 119: the existence check; lines 136-139 when the object is there.
CreateHas(p) ==
    /\ proc[p].pc = "c_has"
    /\ \E statErr \in StatErrs(fs, ToObjectLink(proc[p].cid, proc[p].cid)) :
         IF HasObject(statErr)
           THEN /\ Return(p, [has |-> TRUE, err |-> Nil])
                /\ hist' = [hist EXCEPT ![proc[p].cid] = "created"]
           ELSE /\ Step(p, [pc |-> "c_mkdir"])
                /\ UNCHANGED hist
    /\ UNCHANGED <<fs, dirs>>

\* Line 121: os.MkdirAll(filepath.Dir(objLink), 0777), its error dropped.
\* os.MkdirAll returns nil at once when the directory is there; otherwise it
\* makes the directory or fails.
CreateMkdirAll(p) ==
    /\ proc[p].pc = "c_mkdir"
    /\ LET dir == FilepathDir(ToObjectLink(proc[p].cid, proc[p].cid))
       IN  \/ /\ dirs' = dirs \cup {dir}
              /\ Step(p, [pc |-> "c_create"])
           \/ /\ dir \notin dirs
              /\ dirs' = dirs
              /\ Step(p, [pc |-> "c_create", mkerr |-> "EACCES"])
    /\ UNCHANGED <<fs, hist>>

\* Lines 122-126: os.Create truncates the file or makes an empty one; it
\* fails when the directory is missing or the environment refuses.
CreateFile(p) ==
    /\ proc[p].pc = "c_create"
    /\ LET objLink == ToObjectLink(proc[p].cid, proc[p].cid)
       IN  \/ /\ FilepathDir(objLink) \in dirs
              /\ fs' = [fs EXCEPT ![objLink] = File(<<>>)]
              /\ Step(p, [pc |-> "c_write", wrote |-> TRUE])
           \/ /\ Return(p, [err |-> ErrObjectWritingFailed])
              /\ UNCHANGED fs
    /\ UNCHANGED <<dirs, hist>>

\* Lines 128-135, 139: the buffer is written at offset 0; a write that fails
\* leaves what it got onto the disk.
CreateWrite(p) ==
    /\ proc[p].pc = "c_write"
    /\ LET objLink == ToObjectLink(proc[p].cid, proc[p].cid)
           data == proc[p].data
       IN  \E n \in WriteCounts(data) :
             /\ fs' = [fs EXCEPT ![objLink] =
                          File(WriteAt0(@.content, SubSeq(data, 1, n)))]
             /\ IF n = Len(data)
                   THEN /\ Return(p, [err |-> Nil])
                        /\ hist' = [hist EXCEPT ![proc[p].cid] = "created"]
                   ELSE /\ Return(p, [err |-> ErrObjectWritingFailed])
                        /\ UNCHANGED hist
    /\ UNCHANGED dirs

--------------------------------------------------------------------------
(* ReadObject(ctx, cid)                                                    *)

ReadCall(p) ==
    /\ proc[p].pc = "idle"
    /\ \E cid \in CIDs, ctx0 \in CtxErrs :
         Call(p, [pc |-> "r_has", op |-> "read", cid |-> cid,
                  ctx |-> ctx0, pre |-> ctx0 # Nil])
    /\ UNCHANGED <<fs, dirs, hist>>

\* Lines 74-76: the existence check comes first.
ReadHas(p) ==
    /\ proc[p].pc = "r_has"
    /\ \E statErr \in StatErrs(fs, ToObjectLink(proc[p].cid, proc[p].cid)) :
         IF ~HasObject(statErr)
           THEN Return(p, [err |-> ErrObjectNotExists])
           ELSE Step(p, [pc |-> "r_ctx"])
    /\ UNCHANGED <<fs, dirs, hist>>

\* Lines 81-83: the context check.
ReadCheckCtx(p) ==
    /\ proc[p].pc = "r_ctx"
    /\ LET ctxErr == checkContextError(proc[p].ctx)
       IN  IF ctxErr # Nil
             THEN Return(p, [err |-> ctxErr])
             ELSE Step(p, [pc |-> "r_open", ctx |-> Nil, pre |-> FALSE])
    /\ UNCHANGED <<fs, dirs, hist>>

\* Lines 87-91: os.Open.
ReadOpen(p) ==
    /\ proc[p].pc = "r_open"
    /\ \/ /\ fs[ToObjectLink(proc[p].cid, proc[p].cid)].present
          /\ Step(p, [pc |-> "r_read"])
       \/ Return(p, [err |-> ErrObjectReadingFailed])
    /\ UNCHANGED <<fs, dirs, hist>>

\* Lines 93-100: the whole file is read, or the read fails.
ReadFrom(p) ==
    /\ proc[p].pc = "r_read"
    /\ \/ Return(p, [err |-> Nil,
                     val |-> fs[ToObjectLink(proc[p].cid, proc[p].cid)].content])
       \/ Return(p, [err |-> ErrObjectReadingFailed])
    /\ UNCHANGED <<fs, dirs, hist>>

--------------------------------------------------------------------------
Next ==
    \E p \in Procs :
     /\ UNCHANGED <<listVars, consVars>>
     /\ \/ HasObjectCall(p)
        \/ HasObjectStat(p)
        \/ CreateCall(p)
        \/ CreateCheckCtx(p)
        \/ CreateHas(p)
        \/ CreateMkdirAll(p)
        \/ CreateFile(p)
        \/ CreateWrite(p)
        \/ ReadCall(p)
        \/ ReadHas(p)
        \/ ReadCheckCtx(p)
        \/ ReadOpen(p)
        \/ ReadFrom(p)
        \/ CtxDone(p)

Spec == Init /\ [][Next]_vars

--------------------------------------------------------------------------
(* ListObject(ctx): filepath.Walk over the bucket directory in a goroutine *)
(* that sends the name of every regular file on chData.                    *)

\* dir := fmt.Sprintf("%s/%s", f.dataDir, f.bucket)
BucketDir == <<ConfigDir, ConfigBucket>>

\* The directories of the tree under the bucket directory: the object
\* directories and the shard directories above them (os.MkdirAll makes both).
TreeDirs(ds) ==
    {BucketDir} \cup
    {SubSeq(d, 1, n) : d \in ds, n \in (Len(BucketDir) + 1)..(Len(BucketDir) + 2)}

TreeFiles(fsys) == {l \in Links : fsys[l].present}

\* The order of the names of a directory: filepath.Walk reads them sorted.
CharIndex(c) == CHOOSE i \in 1..Len(HexChars) : HexChars[i] = c

RECURSIVE LexLess(_, _)
LexLess(a, b) ==
    IF a = <<>> THEN b # <<>>
    ELSE IF b = <<>> THEN FALSE
    ELSE IF Head(a) = Head(b) THEN LexLess(Tail(a), Tail(b))
    ELSE CharIndex(Head(a)) < CharIndex(Head(b))

\* The order of two paths: segment by segment, a path before the paths
\* below it.
RECURSIVE PathLess(_, _)
PathLess(a, b) ==
    IF a = <<>> THEN b # <<>>
    ELSE IF b = <<>> THEN FALSE
    ELSE IF Head(a) = Head(b) THEN PathLess(Tail(a), Tail(b))
    ELSE LexLess(Head(a), Head(b))

\* What filepath.Walk visits from the bucket directory on, in its order: a
\* directory, then what is below it, the names of a directory in lexical
\* order.  An entry carries the os.FileInfo the walk function looks at.
WalkOrder(fsys, ds) ==
    LET nodes == TreeDirs(ds) \cup TreeFiles(fsys)
    IN  [i \in 1..Cardinality(nodes) |->
           LET x == CHOOSE n \in nodes :
                       Cardinality({y \in nodes : PathLess(y, n)}) = i - 1
           IN  [path |-> x, name |-> x[Len(x)],
                regular |-> x \notin TreeDirs(ds)]]

WalkPaths == WalkOrder(fs, dirs)

\* A test that takes a directory for a regular file as well.
IsRegularAny(info) == TRUE

\* info.Mode().IsRegular()
IsRegular(info) == info.regular

\* A walk function that looks at the context only after the file is handled.
WalkFnLateCtx(ctxErr, info, err) ==
    IF err # Nil THEN [do |-> "return", err |-> err, cause |-> "walk"]
    ELSE IF IsRegular(info) THEN [do |-> "send", err |-> Nil, cause |-> Nil]
    ELSE IF ctxErr # Nil THEN [do |-> "return", err |-> ctxErr, cause |-> "ctx"]
    ELSE [do |-> "next", err |-> Nil, cause |-> Nil]

\* The walk function, lines 179-190: the context first, then the walk's
\* error, then the file.
WalkFn(ctxErr, info, err) ==
    IF ctxErr # Nil THEN [do |-> "return", err |-> ctxErr, cause |-> "ctx"]
    ELSE IF err # Nil THEN [do |-> "return", err |-> err, cause |-> "walk"]
    ELSE IF IsRegular(info) THEN [do |-> "send", err |-> Nil, cause |-> Nil]
    ELSE [do |-> "next", err |-> Nil, cause |-> Nil]

\* Lines 169-174, 197: the channels are made and the producer is started.
ListObjectCall ==
    /\ lo.pc = "idle"
    /\ \E ctx0 \in CtxErrs :
         lo' = [lo EXCEPT !.pc = "walk", !.ctx = ctx0, !.pre = ctx0 # Nil,
                          !.pos = 1]
    /\ chData' = [closed |-> FALSE]
    /\ chErr' = [buf |-> <<>>, closed |-> FALSE]
    /\ UNCHANGED <<recvd, storeVars, consVars>>

\* The context of the ListObject call is cancelled, or its deadline passes.
ListCtxDone ==
    /\ lo.pc \notin {"idle", "done"}
    /\ lo.ctx = Nil
    /\ \E e \in CtxErrs \ {Nil} : lo' = [lo EXCEPT !.ctx = e]
    /\ UNCHANGED <<chData, chErr, recvd, storeVars, consVars>>

\* filepath.Walk comes to its next path and calls the walk function, with
\* the error of lstat or of reading the directory if there was one; the walk
\* ends when the function returns an error or no path is left.
WalkVisit ==
    /\ lo.pc = "walk"
    /\ IF lo.pos > Len(WalkPaths)
         THEN lo' = [lo EXCEPT !.pc = "closeData"]
         ELSE \E err \in {Nil, "EIO"} :
                LET r == WalkFn(lo.ctx, WalkPaths[lo.pos], err)
                IN  lo' = CASE r.do = "return" ->
                                 [lo EXCEPT !.pc = "fail", !.err = r.err,
                                            !.cause = r.cause]
                            [] r.do = "send" -> [lo EXCEPT !.pc = "send"]
                            [] OTHER -> [lo EXCEPT !.pos = @ + 1]
    /\ UNCHANGED <<chData, chErr, recvd, storeVars, consVars>>

\* A send on a chData that has a buffer: it completes with no receiver.
SendBuffered ==
    /\ lo.pc = "send"
    /\ ~chData.closed
    /\ lo' = [lo EXCEPT !.pc = "walk", !.pos = @ + 1]
    /\ UNCHANGED <<chData, chErr, recvd, storeVars, consVars>>

\* Line 187: chData <- info.Name() completes when the consumer receives.
RecvData ==
    /\ lo.pc = "send"
    /\ ~chData.closed
    /\ recvd' = [recvd EXCEPT !.ids = Append(@, WalkPaths[lo.pos].name)]
    /\ lo' = [lo EXCEPT !.pc = "walk", !.pos = @ + 1]
    /\ UNCHANGED <<chData, chErr, storeVars, consVars>>

\* A producer that returns the walk's error without sending it.
SendErrDropped ==
    /\ lo.pc = "fail"
    /\ lo' = [lo EXCEPT !.pc = "closeData"]
    /\ UNCHANGED <<chData, chErr, recvd, storeVars, consVars>>

\* Lines 191-194: chErr <- err; the buffer of 1 takes it.
SendErr ==
    /\ lo.pc = "fail"
    /\ Len(chErr.buf) < 1
    /\ ~chErr.closed
    /\ chErr' = [chErr EXCEPT !.buf = Append(@, lo.err)]
    /\ lo' = [lo EXCEPT !.pc = "closeData"]
    /\ UNCHANGED <<chData, recvd, storeVars, consVars>>

\* The deferred closes in the other order: chErr is closed first.
CloseErrFirst ==
    /\ lo.pc = "closeData"
    /\ chErr' = [chErr EXCEPT !.closed = TRUE]
    /\ lo' = [lo EXCEPT !.pc = "closeErr"]
    /\ UNCHANGED <<chData, recvd, storeVars, consVars>>

\* Line 176, deferred last and so run first: close(chData).
CloseData ==
    /\ lo.pc = "closeData"
    /\ chData' = [chData EXCEPT !.closed = TRUE]
    /\ lo' = [lo EXCEPT !.pc = "closeErr"]
    /\ UNCHANGED <<chErr, recvd, storeVars, consVars>>

\* Line 175: close(chErr).
CloseErr ==
    /\ lo.pc = "closeErr"
    /\ chErr' = [chErr EXCEPT !.closed = TRUE]
    /\ lo' = [lo EXCEPT !.pc = "done"]
    /\ UNCHANGED <<chData, recvd, storeVars, consVars>>

\* The consumer receives the error waiting on chErr.
RecvErr ==
    /\ chErr.buf # <<>>
    /\ recvd' = [recvd EXCEPT !.errs = Append(@, Head(chErr.buf))]
    /\ chErr' = [chErr EXCEPT !.buf = Tail(@)]
    /\ UNCHANGED <<lo, chData, storeVars, consVars>>

\* The bucket ListObject walks: any the engine can have left.  Per CID,
\* "none": nothing; "dir": the object directory alone; n: the file with the
\* first n bytes of the object (all of them, or what a failed write left).
BucketStates ==
    {b \in [CIDs -> {"none", "dir"} \cup {ToString(n) : n \in 0..MaxLen}] :
        \A c \in CIDs :
           \/ b[c] \in {"none", "dir"}
           \/ \E n \in 0..Len(DataOf(c)) : b[c] = ToString(n)}

BucketFile(c, state) ==
    IF state \in {"none", "dir"} THEN NoFile
    ELSE File(SubSeq(DataOf(c),
                     1, CHOOSE n \in 0..Len(DataOf(c)) : state = ToString(n)))

InitList ==
    /\ \E b \in BucketStates :
         /\ fs = [l \in Links |->
                    LET c == CHOOSE x \in CIDs : LinkOf(x) = l
                    IN  BucketFile(c, b[c])]
         /\ dirs = {FilepathDir(LinkOf(c)) : c \in {x \in CIDs : b[x] # "none"}}
         /\ hist = [c \in CIDs |-> IF b[c] = "none" THEN "none" ELSE "called"]
    /\ proc = [p \in Procs |-> Idle]
    /\ ListInit
    /\ ConsInit

NextList ==
    \/ ListObjectCall
    \/ ListCtxDone
    \/ WalkVisit
    \/ RecvData
    \/ SendErr
    \/ CloseData
    \/ CloseErr
    \/ RecvErr

SpecList == InitList /\ [][NextList]_vars

\* The producer is a goroutine: the scheduler runs it whenever it can take a
\* step.  What the consumer receives and when the context ends is up to the
\* caller, so RecvData, RecvErr and ListCtxDone have no fairness.
SpecListFair ==
    /\ SpecList
    /\ WF_vars(WalkVisit) /\ WF_vars(SendErr)
    /\ WF_vars(CloseData) /\ WF_vars(CloseErr)

--------------------------------------------------------------------------
(* Construction with any options, and ToObjectLink and HasObject called    *)
(* with any string on the store it returns.                                *)

\* The strings handed in as CIDs.
CidStrings == Strings({"a", "b"}, MaxCid)

\* Before NewFileSystemObjectStore is called.
NotConstructed ==
    [pc |-> "none", opts |-> NoOpts, config |-> defaultFSObjectstoreConfig,
     err |-> Nil]

InitNew ==
    /\ fs = [l \in Links |-> NoFile]
    /\ dirs = {}
    /\ proc = [p \in Procs |-> Idle]
    /\ hist = [c \in CIDs |-> "none"]
    /\ ListInit
    /\ cons = NotConstructed
    /\ call = NoCall
    /\ prev = NoCall

\* src/fsstore.go lines 23-36.
Construct ==
    /\ cons.pc = "none"
    /\ \E opts \in Opts : cons' = NewFileSystemObjectStore(opts)
    /\ UNCHANGED <<call, prev>>

\* ToObjectLink(cid, name) on the store; a panic ends the program.
ToObjectLinkCall ==
    /\ cons.pc = "built"
    /\ ~call.panic
    /\ \E cid \in CidStrings :
         \E name \in {cid, <<"a">>} :
            LET r == ToObjectLinkOn(cons.config, cid, name)
            IN  call' = [op |-> "link", cid |-> cid, name |-> name,
                         panic |-> r.panic, link |-> r.link, has |-> FALSE]
    /\ prev' = call
    /\ UNCHANGED cons

\* HasObject(ctx, cid) on the store, lines 63-69, whatever is at the link.
HasObjectOfString ==
    /\ cons.pc = "built"
    /\ ~call.panic
    /\ \E cid \in CidStrings, statErr \in {Nil, "ENOENT", "EACCES"} :
         LET r == ToObjectLinkOn(cons.config, cid, cid)
         IN  call' = [op |-> "has", cid |-> cid, name |-> cid,
                      panic |-> r.panic, link |-> r.link,
                      has |-> ~r.panic /\ HasObject(statErr)]
    /\ prev' = call
    /\ UNCHANGED cons

NextNew ==
    /\ UNCHANGED <<storeVars, listVars>>
    /\ \/ Construct
       \/ ToObjectLinkCall
       \/ HasObjectOfString

SpecNew == InitNew /\ [][NextNew]_vars

--------------------------------------------------------------------------
(* Properties of HasObject, ReadObject and CreateObject.                   *)

\* Caller p has returned from a call of `op`.
Returned(p, op) == proc[p].pc = "idle" /\ proc[p].op = op

\* Caller p returns from a call of `op` in this step.
Returns(p, op) ==
    proc[p].pc # "idle" /\ proc[p].op = op /\ proc'[p].pc = "idle"

\* No caller but p has made a call yet: p's calls are a plain sequence.
Alone(p) == \A q \in Procs \ {p} : proc[q] = Idle

\* C1: round trip.  Once a CreateObject of b has returned its CID without
\* error, a following ReadObject of that CID that returns without error
\* returns exactly b; here for one caller's calls in sequence, whatever they
\* were before.
C1_RoundTrip ==
    \A p \in Procs :
       (Alone(p) /\ Returned(p, "read") /\ hist[proc[p].cid] = "created"
          /\ proc[p].err = Nil)
       => proc[p].val = DataOf(proc[p].cid)

\* C2: idempotence.  When a caller's CreateObject of b returns without error
\* right after its CreateObject of b that returned without error, the second
\* call wrote nothing and the file of the CID holds b.
C2_Idempotent ==
    [][\A p \in Procs :
          (Alone(p) /\ Returns(p, "create") /\ proc[p].again
             /\ proc'[p].err = Nil)
          => /\ ~proc'[p].wrote
             /\ fs'[LinkOf(proc[p].cid)] = File(proc[p].data)]_vars

\* C3: HasObject answers false as long as no CreateObject call was made for
\* the CID, and true once such a call has returned without error.
C3_HasFollowsCreate ==
    [][\A p \in Procs :
          Returns(p, "has")
          => /\ hist[proc[p].cid] = "none" => ~proc'[p].has
             /\ hist[proc[p].cid] = "created" => proc'[p].has]_vars

\* C4: a ReadObject or CreateObject called with a context that is already
\* cancelled (past its deadline) fails with ErrOperationCancelled
\* (ErrOperationDeadlineExceeded), the object present or not, and no step of
\* such a ReadObject changes the filesystem.
C4_CancelledBeforeCall ==
    [][\A p \in Procs :
          (proc[p].op \in {"read", "create"} /\ proc[p].pre)
          => /\ proc'[p].pc = "idle"
                => proc'[p].err = checkContextError(proc[p].ctx)
             /\ (proc[p].op = "read" /\ proc'[p] # proc[p])
                => (fs' = fs /\ dirs' = dirs)]_vars

\* C5: a ReadObject with a live context of a CID that has no file fails with
\* ErrObjectNotExists and returns no bytes.
C5_ReadUnknown ==
    [][\A p \in Procs :
          (Returns(p, "read") /\ proc[p].ctx = Nil
             /\ ~fs[LinkOf(proc[p].cid)].present)
          => (proc'[p].err = ErrObjectNotExists /\ proc'[p].val = <<>>)]_vars

\* C6: HasObject answers true only when os.Stat succeeded, and false for
\* every error of os.Stat, not found or other.
C6_StatErrorIsAbsent ==
    \A p \in Procs :
       Returned(p, "has") => (proc[p].has <=> proc[p].stat = Nil)

\* s is a prefix of t.
IsPrefix(s, t) == Len(s) <= Len(t) /\ SubSeq(t, 1, Len(s)) = s

\* C7: once the file of a CID exists with some content, no step of any call
\* truncates it or changes the bytes it holds (the call that made the file
\* may still add the bytes it is writing).
C7_Immutable ==
    [][\A l \in Links :
          fs[l].present
          => (fs'[l].present /\ IsPrefix(fs[l].content, fs'[l].content))]_vars

\* C8: when two callers' CreateObject calls for the same content both found
\* the object absent, both wrote and both returned without error, the file at
\* the object link holds exactly the content (and the calls, given the same
\* bytes, returned the same CID).
C8_ConcurrentCreate ==
    \A p, q \in Procs :
       (/\ p # q
        /\ Returned(p, "create") /\ Returned(q, "create")
        /\ proc[p].err = Nil /\ proc[q].err = Nil
        /\ proc[p].wrote /\ proc[q].wrote
        /\ DataOf(proc[p].cid) = DataOf(proc[q].cid))
       => /\ proc[p].cid = proc[q].cid
          /\ fs[LinkOf(proc[p].cid)] = File(DataOf(proc[p].cid))

C8_BothWrote ==
    \E p, q \in Procs :
       /\ p # q
       /\ Returned(p, "create") /\ Returned(q, "create")
       /\ proc[p].err = Nil /\ proc[q].err = Nil
       /\ proc[p].wrote /\ proc[q].wrote
       /\ proc[p].cid = proc[q].cid
       /\ DataOf(proc[p].cid) # <<>>

\* The statements of a call that access the filesystem: os.Stat, os.Open,
\* the read, os.MkdirAll, os.Create, the write.
FsAccessPcs == {"h_stat", "r_has", "r_open", "r_read",
                "c_has", "c_mkdir", "c_create", "c_write"}

\* C12: a ReadObject or CreateObject called with a context that is already
\* cancelled or past its deadline takes no step that accesses the
\* filesystem: the context check comes before the first access.
C12_NoAccessWhenDone ==
    [][\A p \in Procs :
          (proc[p].op \in {"read", "create"} /\ proc[p].pre
             /\ proc'[p] # proc[p])
          => proc[p].pc \notin FsAccessPcs]_vars

\* C15: a CreateObject that found the object absent returns
\* ErrObjectWritingFailed when os.Create fails or the write does not get all
\* bytes onto the disk, and returns without error only when none of its
\* steps failed: os.MkdirAll returned no error and the file holds the bytes.
C15_WriteFailureFails ==
    [][\A p \in Procs :
          (Returns(p, "create") /\ proc[p].pc \in {"c_create", "c_write"})
          => IF proc'[p].err = Nil
               THEN /\ proc[p].mkerr = Nil
                    /\ fs'[LinkOf(proc[p].cid)] = File(proc[p].data)
               ELSE proc'[p].err = ErrObjectWritingFailed]_vars

\* C18: every ReadObject that returns without error returns bytes whose
\* digest is the CID it was asked for, in every interleaving with
\* CreateObject calls and after any failed write.
C18_ReadIntegrity ==
    \A p \in Procs :
       (Returned(p, "read") /\ proc[p].err = Nil)
       => DigestObject(proc[p].val) = proc[p].cid

--------------------------------------------------------------------------
(* Properties of ListObject.                                               *)

\* The CIDs of the objects stored in the bucket.
Stored == {c \in CIDs : fs[LinkOf(c)].present}

SeqSet(s) == {s[i] : i \in 1..Len(s)}
NoDup(s) == \A i, j \in 1..Len(s) : s[i] = s[j] => i = j

\* The errors the producer has put on chErr so far, received or not.
Emitted == recvd.errs \o chErr.buf

\* C9: when no check saw the context done and the walk hit no error, the
\* consumer has received, once the producer is through, each identifier of
\* the stored objects exactly once and no directory name; chData is closed
\* only after that, chErr is closed after chData, and no error was emitted.
C9_ListClean ==
    lo.cause = Nil
    => /\ NoDup(recvd.ids)
       /\ SeqSet(recvd.ids) \subseteq Stored
       /\ Emitted = <<>>
       /\ chData.closed => SeqSet(recvd.ids) = Stored
       /\ chErr.closed => chData.closed
       /\ lo.pc = "done" => chErr.closed

C9_ListedAll ==
    /\ lo.pc = "done" /\ lo.cause = Nil
    /\ Cardinality(Stored) > 1
    /\ Len(recvd.ids) = Cardinality(Stored)

\* C10: the producer handles a path only after a check that found the
\* context live; once a check has seen it cancelled or past its deadline the
\* walk is over, no further identifier is sent, and the context's error is
\* put on chErr exactly once; with a context done when ListObject is called
\* no identifier is ever delivered.
C10_CancelStopsWalk ==
    /\ [](lo.cause = "ctx"
          => /\ lo.pc \in {"fail", "closeData", "closeErr", "done"}
             /\ lo.err = lo.ctx /\ lo.err \in CtxErrs \ {Nil}
             /\ Emitted = IF lo.pc = "fail" THEN <<>> ELSE <<lo.err>>)
    /\ [](lo.pre => recvd.ids = <<>>)
    /\ [][lo.cause = "ctx" => (recvd'.ids = recvd.ids /\ lo'.cause = "ctx")]_vars
    /\ [][(lo.pc = "walk" /\ (lo'.pc = "send" \/ lo'.pos # lo.pos))
          => lo.ctx = Nil]_vars

C10_CancelledMidWalk ==
    /\ lo.pc = "done" /\ lo.cause = "ctx" /\ ~lo.pre
    /\ Len(recvd.ids) > 0
    /\ recvd.errs = <<"Canceled">>

\* C11: when the walk function is handed a filesystem error (the context
\* live), the walk is over, that error is put on chErr exactly once, no
\* identifier is delivered afterwards, and the producer goes on to close
\* chData and chErr.
C11_WalkErrorAborts ==
    /\ [](lo.cause = "walk"
          => /\ lo.pc \in {"fail", "closeData", "closeErr", "done"}
             /\ lo.err = "EIO"
             /\ Emitted = IF lo.pc = "fail" THEN <<>> ELSE <<lo.err>>)
    /\ [][lo.cause = "walk"
          => (recvd'.ids = recvd.ids /\ lo'.cause = "walk")]_vars
    /\ (lo.cause = "walk" ~> (chData.closed /\ chErr.closed))

C11_WalkFailed ==
    /\ lo.pc = "done" /\ lo.cause = "walk"
    /\ Len(recvd.ids) > 0
    /\ recvd.errs = <<"EIO">>
    /\ chData.closed /\ chErr.closed

\* The names of the regular files among the first n paths of the walk.
RECURSIVE RegularNames(_, _)
RegularNames(paths, n) ==
    IF n = 0 THEN <<>>
    ELSE RegularNames(paths, n - 1)
         \o (IF paths[n].regular THEN <<paths[n].name>> ELSE <<>>)

\* C16: the identifiers the consumer has received are those of the paths the
\* walk has left behind, so at most the one of the current path is sent and
\* not yet received; and the producer waiting in its send leaves it only when
\* the consumer receives the identifier.
C16_Backpressure ==
    /\ [](lo.pc # "idle" => recvd.ids = RegularNames(WalkPaths, lo.pos - 1))
    /\ [][(lo.pc = "send" /\ (lo'.pc # lo.pc \/ lo'.pos # lo.pos))
          => recvd'.ids = Append(recvd.ids, WalkPaths[lo.pos].name)]_vars

C16_ProducerWaits ==
    /\ lo.pc = "send"
    /\ Len(recvd.ids) > 0
    /\ chErr.buf = <<>>

\* C17: once the context of a ListObject call is cancelled or past its
\* deadline, the producer eventually terminates with both channels closed,
\* whether the consumer goes on receiving or not.
C17_CancelTerminates ==
    (lo.pc # "idle" /\ lo.ctx # Nil)
       ~> (lo.pc = "done" /\ chData.closed /\ chErr.closed)

\* C19: at most one error is ever put on chErr; when chData is closed the
\* error the walk ended with, if any, has been put on chErr; chErr is closed
\* only after chData; and once chData is closed, chErr gets closed, so the
\* consumer's receive on chErr after draining chData returns.
C19_TerminalOrder ==
    /\ [](/\ Len(Emitted) <= 1
          /\ chData.closed => Emitted = IF lo.err = Nil THEN <<>> ELSE <<lo.err>>
          /\ chErr.closed => chData.closed)
    /\ (chData.closed ~> chErr.closed)

C19_ErrorWaiting ==
    /\ chData.closed /\ ~chErr.closed
    /\ lo.err # Nil
    /\ chErr.buf = <<lo.err>>
    /\ Len(recvd.ids) > 0

--------------------------------------------------------------------------
(* Properties of construction and of the path resolver.                    *)

\* The string is empty once whitespace is trimmed: it is all whitespace.
AllSpace(str) == \A i \in 1..Len(str) : str[i] = " "

DirEmpty(opts) == opts.dir.set /\ AllSpace(opts.dir.val)
BucketEmpty(opts) == opts.bucket.set /\ AllSpace(opts.bucket.val)

\* C13: construction fails with ErrDataDirNotSpecified when the directory
\* given is empty after trimming, with ErrBucketNotSpecified when the bucket
\* given is (the directory, looked at first, being fine), and returns a
\* store exactly when neither is; every call runs on a store that was
\* returned, whose directory and bucket are not empty.
C13_ConstructionValidates ==
    /\ cons.pc # "none"
       => /\ DirEmpty(cons.opts)
             => (cons.pc = "failed" /\ cons.err = ErrDataDirNotSpecified)
          /\ (BucketEmpty(cons.opts) /\ ~DirEmpty(cons.opts))
             => (cons.pc = "failed" /\ cons.err = ErrBucketNotSpecified)
          /\ cons.pc = "built"
             <=> (~DirEmpty(cons.opts) /\ ~BucketEmpty(cons.opts))
    /\ cons.pc = "built"
       => (cons.err = Nil /\ cons.config.dir # <<>> /\ cons.config.bucket # <<>>)
    /\ call.op # "none" => cons.pc = "built"

C13_BlankBucketRejected ==
    /\ cons.pc = "failed" /\ cons.err = ErrBucketNotSpecified
    /\ cons.opts.bucket.set /\ Len(cons.opts.bucket.val) = MaxOpt
    /\ ~cons.opts.dir.set

\* C14: on one store, two ToObjectLink calls with the same name return the
\* same link string exactly when they are given the same CID, whatever the
\* shard-prefix length (0 too).
C14_ResolverInjective ==
    (/\ call.op = "link" /\ prev.op = "link"
     /\ ~call.panic /\ ~prev.panic
     /\ call.name = prev.name)
    => (PathString(call.link) = PathString(prev.link) <=> call.cid = prev.cid)

C14_TwoCidsResolved ==
    /\ call.op = "link" /\ prev.op = "link"
    /\ ~call.panic /\ ~prev.panic
    /\ call.name = prev.name
    /\ call.cid # prev.cid
    /\ Len(call.cid) = Len(prev.cid)
    /\ cons.config.seperatorLength = 0

\* C20: HasObject and ToObjectLink return for every string and every
\* shard-prefix length: no call panics.
C20_HasNeverFails ==
    call.op \in {"has", "link"} => ~call.panic

====
